---- MODULE Spec2Model ----
(***************************************************************************)
(* Model of the ctor<T> construction-descriptor engine (src/src/ctor.ts).  *)
(*                                                                         *)
(* The JavaScript object heap is modelled explicitly: every object is a    *)
(* cell [props, proto]; references are indices into `heap`, 0 stands for   *)
(* Object.prototype (the end of every prototype chain).  Property values   *)
(* are strings: data values, class names (the `constructor` property) and  *)
(* function names ("Bar.m").                                               *)
(***************************************************************************)
EXTENDS Naturals, Sequences, FiniteSets, TLC

VARIABLES
    ctors,      \* the ctor<T> objects created so far (descriptors)
    ext,        \* the parentCtor of the latest Extended handle (0: none yet)
    heap,       \* the object heap
    armed,      \* class -> the ctor whose hasInstance is installed (0: default)
    instances,  \* what construct() returned, in call order
    stack,      \* call stack of a running method call
    writes,     \* number of client field assignments made so far
    last        \* the factory that made the latest ctor

vars == <<ctors, ext, heap, armed, instances, stack, writes, last>>

(***************************************************************************)
(* Bounds: ctors created, construct() calls, client field assignments,    *)
(* the depth of the call stack at which a call overflows, and the ctors    *)
(* created in the scenarios of the tests.                                  *)
(***************************************************************************)
MaxCtors == 3
MaxInst == 2
MaxWrites == 1
MaxStack == 4
MaxScenarioCtors == 4

(***************************************************************************)
(* The declared classes the engine is exercised with.  Foo is a plain      *)
(* class; Bar and Baz extend Implementation<...>() and delegate `m` to     *)
(* their superclass through this._super.  For `size` the classes are the   *)
(* sets of injection_test.ts: Foo and Bar answer themselves (SparseSet,    *)
(* DenseSet) and Baz delegates (MutableSet).  As the README requires, no   *)
(* declared class extends another declared class directly, so a class      *)
(* object inherits Symbol.hasInstance only from Base / Function.prototype, *)
(* and Base itself is never the class of a ctor.                           *)
(***************************************************************************)
Classes == {"Foo", "Bar", "Baz"}
Mutated == "x"
UNDEF == "undefined"

\* The field a class' boilerplate constructor assigns from its parameters.
FieldNames == [Foo |-> <<"foo">>, Bar |-> <<"bar", "qux">>, Baz |-> <<"baz">>]

AllFields == UNION {{FieldNames[c][k] : k \in 1..Len(FieldNames[c])} : c \in Classes}

\* The argument lists the factories of each class pass to its constructor;
\* a caller of Baz's factory may pass `undefined` for the argument object.
ParamsOf(clazz) ==
    CASE clazz = "Foo" -> {<<"a">>, <<"b">>}
      [] clazz = "Bar" -> {<<"c", "d">>}
      [] clazz = "Baz" -> {<<"e">>, <<UNDEF>>}

\* Methods whose body is `... this._super.<same name>() ...`.
Delegating == {"Bar.m", "Baz.m", "Baz.size"}

\* The property each method function is declared under.
MethodName ==
    [fn \in {"Foo.m", "Bar.m", "Baz.m", "Foo.size", "Bar.size", "Baz.size"} |->
        IF fn \in {"Foo.m", "Bar.m", "Baz.m"} THEN "m" ELSE "size"]

\* The methods client code calls on an instance.
Callable == {"m", "size"}

\* heap[1] is Base.prototype, heap[2..4] are the declared prototypes.
BasePrototype == 1
PrototypeOf == [Foo |-> 2, Bar |-> 3, Baz |-> 4]

InitialHeap ==
    << [props |-> ("constructor" :> "Base"), proto |-> 0],
       [props |-> ("constructor" :> "Foo" @@ "m" :> "Foo.m" @@ "size" :> "Foo.size"
                   @@ "clone" :> "Foo.clone"),
        proto |-> 0],
       [props |-> ("constructor" :> "Bar" @@ "m" :> "Bar.m" @@ "size" :> "Bar.size"
                   @@ "clone" :> "Bar.clone"),
        proto |-> BasePrototype],
       [props |-> ("constructor" :> "Baz" @@ "m" :> "Baz.m" @@ "size" :> "Baz.size"
                   @@ "add" :> "Baz.add"),
        proto |-> BasePrototype] >>

(***************************************************************************)
(* Object model helpers.                                                   *)
(***************************************************************************)
getPrototypeOf(h, ref) == h[ref].proto

\* Property read with prototype-chain lookup (target[prop]).
RECURSIVE Get(_, _, _)
Get(h, ref, prop) ==
    IF ref = 0 THEN UNDEF
    ELSE IF prop \in DOMAIN h[ref].props THEN h[ref].props[prop]
    ELSE Get(h, h[ref].proto, prop)

\* The boilerplate constructor destructures its argument object, which
\* throws a TypeError when the argument is `undefined`.
Throws(clazz, params) == params[1] = UNDEF

\* The exception a constructor of clazz throws.
Thrown(clazz) == [Foo |-> "TypeError(Foo)", Bar |-> "TypeError(Bar)", Baz |-> "TypeError(Baz)"][clazz]

\* Mutant: a field that is already assigned keeps its value.
Initializer_KeepFirst(clazz, props, params) ==
    [f \in DOMAIN props \cup {FieldNames[clazz][k] : k \in 1..Len(FieldNames[clazz])} |->
        IF f \in DOMAIN props THEN props[f]
        ELSE params[CHOOSE k \in 1..Len(FieldNames[clazz]) : FieldNames[clazz][k] = f]]

\* The class constructor `apply`-ed to obj: assigns its parameters to fields.
Initializer(clazz, props, params) ==
    [f \in DOMAIN props \cup {FieldNames[clazz][k] : k \in 1..Len(FieldNames[clazz])} |->
        IF \E k \in 1..Len(FieldNames[clazz]) : FieldNames[clazz][k] = f
        THEN params[CHOOSE k \in 1..Len(FieldNames[clazz]) : FieldNames[clazz][k] = f]
        ELSE props[f]]

(***************************************************************************)
(* ctor<T>                                                                 *)
(***************************************************************************)
ctor(parentCtor, clazz, params) ==
    [parentCtor |-> parentCtor, ctor |-> clazz, params |-> params]

ctor_new(clazz, params) == ctor(0, clazz, params)

\* Mutant: the explicit parameters are not forwarded.
ctor_newAbstract_NoParams(clazz, params) == ctor(0, clazz, <<>>)

ctor_newAbstract(clazz, params) == ctor(0, clazz, params)

\* Mutant: the child is not linked to the ctor it extends.
extend_Unlinked(this, childClass, params) == ctor(0, childClass, params)

\* Mutant: the child ctor is given the parent's arguments before its own.
extend_Restating(this, childClass, params) ==
    ctor(this, childClass, ctors[this].params \o params)

\* Mutant: the new ctor is its own parent.
extend_SelfLinked(this, childClass, params) ==
    ctor(Len(ctors) + 1, childClass, params)

extend(this, childClass, params) == ctor(this, childClass, params)

\* Mutant: the handle wraps the first ctor ever created.
from_First(superCtor) == 1

\* from(superCtor): the handle is identified by the ctor it wraps.
from(superCtor) == superCtor

\* Mutant: the parameters of the parent are passed to the child again.
Extended_new_Restating(handle, child, params) ==
    extend(handle, child, ctors[handle].params \o params)

\* Extended.new: this.parentCtor.extend(child, ...params)
Extended_new(handle, child, params) == extend(handle, child, params)

\* Mutant: only `constructor` is copied, the methods are not.
CloneProto_OnlyConstructor(h, clazz) ==
    [p \in {"constructor"} |-> h[PrototypeOf[clazz]].props[p]]

\* Mutant: the copy is taken from the prototype as it was declared.
CloneProto_AsDeclared(h, clazz) ==
    [p \in DOMAIN h[PrototypeOf[clazz]].props \cup {"constructor"} |->
        InitialHeap[PrototypeOf[clazz]].props[p]]

\* { ...this.ctor.prototype } followed by the manual copy of `constructor`.
CloneProto(h, clazz) ==
    [p \in DOMAIN h[PrototypeOf[clazz]].props \cup {"constructor"} |->
        h[PrototypeOf[clazz]].props[p]]

\* Mutant: Symbol.hasInstance is never installed.
Arm_Never(a, clazz, d) == a

\* Mutant: Symbol.hasInstance is installed without the guard.
Arm_Replace(a, clazz, d) == [a EXCEPT ![clazz] = d]

\* The Symbol.hasInstance guard and the defineProperty it protects.
Arm(a, clazz, d) == IF a[clazz] = 0 THEN [a EXCEPT ![clazz] = d] ELSE a

\* Mutant: the parent ctor is not invoked.
constructOn_NoParent(d, obj, h, a) ==
    LET this == ctors[d]
        h1 == [h EXCEPT ![obj].props = Initializer(this.ctor, @, this.params)]
        cell == [props |-> CloneProto(h1, this.ctor), proto |-> BasePrototype]
    IN  [heap |-> Append(h1, cell),
         armed |-> Arm(a, this.ctor, d),
         proto |-> Len(h1) + 1,
         calls |-> <<[ctor |-> this.ctor, params |-> this.params, this |-> obj]>>,
         threw |-> FALSE,
         error |-> UNDEF]

\* constructOn(obj): returns the prototype built for this level.  `calls`
\* lists the constructor invocations made, in order; when a constructor
\* throws, nothing after the call is executed and the exception leaves every
\* enclosing constructOn.
RECURSIVE constructOn(_, _, _, _)

\* Mutant: an exception of the constructor is caught and the level goes on.
constructOn_Recover(d, obj, h, a) ==
    LET this == ctors[d]
        parent == IF this.parentCtor # 0
                  THEN constructOn(this.parentCtor, obj, h, a)
                  ELSE [heap |-> h, armed |-> a, proto |-> BasePrototype,
                        calls |-> <<>>, threw |-> FALSE, error |-> UNDEF]
        call == [ctor |-> this.ctor, params |-> this.params, this |-> obj]
        h1 == IF Throws(this.ctor, this.params) THEN parent.heap
              ELSE [parent.heap EXCEPT
                      ![obj].props = Initializer(this.ctor, @, this.params)]
        cell == [props |-> CloneProto(h1, this.ctor), proto |-> parent.proto]
    IN  [heap |-> Append(h1, cell),
         armed |-> Arm(parent.armed, this.ctor, d),
         proto |-> Len(h1) + 1,
         calls |-> Append(parent.calls, call),
         threw |-> FALSE,
         error |-> UNDEF]

\* Mutant: every prototype built is linked to Base.prototype.
constructOn_Flat(d, obj, h, a) ==
    LET this == ctors[d]
        parent == IF this.parentCtor # 0
                  THEN constructOn(this.parentCtor, obj, h, a)
                  ELSE [heap |-> h, armed |-> a, proto |-> BasePrototype,
                        calls |-> <<>>, threw |-> FALSE, error |-> UNDEF]
        call == [ctor |-> this.ctor, params |-> this.params, this |-> obj]
        h1 == [parent.heap EXCEPT
                 ![obj].props = Initializer(this.ctor, @, this.params)]
        cell == [props |-> CloneProto(h1, this.ctor), proto |-> BasePrototype]
    IN  IF parent.threw THEN parent
        ELSE IF Throws(this.ctor, this.params)
        THEN [parent EXCEPT !.calls = Append(@, call),
                            !.threw = TRUE,
                            !.error = Thrown(this.ctor)]
        ELSE [heap |-> Append(h1, cell),
              armed |-> Arm(parent.armed, this.ctor, d),
              proto |-> Len(h1) + 1,
              calls |-> Append(parent.calls, call),
              threw |-> FALSE,
              error |-> UNDEF]

constructOn(d, obj, h, a) ==
    LET this == ctors[d]
        parent == IF this.parentCtor # 0
                  THEN constructOn(this.parentCtor, obj, h, a)
                  ELSE [heap |-> h, armed |-> a, proto |-> BasePrototype,
                        calls |-> <<>>, threw |-> FALSE, error |-> UNDEF]
        call == [ctor |-> this.ctor, params |-> this.params, this |-> obj]
        h1 == [parent.heap EXCEPT
                 ![obj].props = Initializer(this.ctor, @, this.params)]
        cell == [props |-> CloneProto(h1, this.ctor), proto |-> parent.proto]
    IN  IF parent.threw THEN parent
        ELSE IF Throws(this.ctor, this.params)
        THEN [parent EXCEPT !.calls = Append(@, call),
                            !.threw = TRUE,
                            !.error = Thrown(this.ctor)]
        ELSE [heap |-> Append(h1, cell),
              armed |-> Arm(parent.armed, this.ctor, d),
              proto |-> Len(h1) + 1,
              calls |-> Append(parent.calls, call),
              threw |-> FALSE,
              error |-> UNDEF]

\* Mutant: the object of the previous construct() call is used again.
NewSelf_Reuse(h) == IF Len(h) > Len(InitialHeap) THEN Len(InitialHeap) + 1 ELSE Len(h) + 1

\* const self = {}: a fresh object.
NewSelf(h) == Len(h) + 1

\* Mutant: construct() consumes the parent link of its ctor.
construct_Consuming(d, h, a) ==
    LET self == NewSelf(h)
        h0 == Append(h, [props |-> <<>>, proto |-> 0])
        r == constructOn(d, self, h0, a)
    IN  [heap |-> IF r.threw THEN h ELSE [r.heap EXCEPT ![self].proto = r.proto],
         armed |-> r.armed,
         ctors |-> [ctors EXCEPT ![d].parentCtor = 0],
         self |-> self,
         calls |-> r.calls,
         threw |-> r.threw,
         error |-> r.error]

\* Mutant: the prototype constructOn returns is not set on self.
construct_NoSetPrototype(d, h, a) ==
    LET self == NewSelf(h)
        h0 == Append(h, [props |-> <<>>, proto |-> 0])
        r == constructOn(d, self, h0, a)
    IN  [heap |-> IF r.threw THEN h ELSE r.heap,
         armed |-> r.armed,
         ctors |-> ctors,
         self |-> self,
         calls |-> r.calls,
         threw |-> r.threw,
         error |-> r.error]

\* Mutant: the constructor of the leaf class also runs on the class's own
\* prototype.
construct_OnPrototype(d, h, a) ==
    LET self == NewSelf(h)
        h0 == Append(h, [props |-> <<>>, proto |-> 0])
        r == constructOn(d, self, h0, a)
        clazz == ctors[d].ctor
    IN  [heap |-> IF r.threw THEN h
                  ELSE [r.heap EXCEPT
                          ![self].proto = r.proto,
                          ![PrototypeOf[clazz]].props =
                              [p \in DOMAIN @ \cup {FieldNames[clazz][1]} |->
                                  IF p \in DOMAIN @ THEN @[p] ELSE ctors[d].params[1]]],
         armed |-> r.armed,
         ctors |-> ctors,
         self |-> self,
         calls |-> r.calls,
         threw |-> r.threw,
         error |-> r.error]

\* Mutant: a construct() that throws leaves Symbol.hasInstance of every
\* class as it found it.
construct_Rollback(d, h, a) ==
    LET self == NewSelf(h)
        h0 == Append(h, [props |-> <<>>, proto |-> 0])
        r == constructOn(d, self, h0, a)
    IN  [heap |-> IF r.threw THEN h ELSE [r.heap EXCEPT ![self].proto = r.proto],
         armed |-> IF r.threw THEN a ELSE r.armed,
         ctors |-> ctors,
         self |-> self,
         calls |-> r.calls,
         threw |-> r.threw,
         error |-> r.error]

\* construct(): returns self; the ctor objects are only read.  When a
\* constructor throws, the exception leaves construct(): self and the
\* prototypes built so far are unreachable and are not kept in the heap.
construct(d, h, a) ==
    LET self == NewSelf(h)
        h0 == IF self > Len(h) THEN Append(h, [props |-> <<>>, proto |-> 0])
              ELSE h
        r == constructOn(d, self, h0, a)
    IN  [heap |-> IF r.threw THEN h ELSE [r.heap EXCEPT ![self].proto = r.proto],
         armed |-> r.armed,
         ctors |-> ctors,
         self |-> self,
         calls |-> r.calls,
         threw |-> r.threw,
         error |-> r.error]

(***************************************************************************)
(* Re-entrant construction.  The engine runs to completion: constructOn    *)
(* has no suspension point, so the only code that can run between two of   *)
(* its statements is a constructor it applies (ctor.ts:85), which may      *)
(* itself call construct() on a ctor.  constructOnNested is constructOn    *)
(* for a chain in which the constructor of the ctor `at` starts by         *)
(* evaluating ctors[inner].construct().  `installs` counts, per class, the *)
(* Object.defineProperty calls made (ctor.ts:102-104), those of the nested *)
(* construct() included.                                                   *)
(***************************************************************************)
NoInstalls == [X \in Classes |-> 0]

\* The classes whose Symbol.hasInstance was defined between a and b.
Defined(a, b) == [X \in Classes |-> IF b[X] # a[X] THEN 1 ELSE 0]

Plus(m, n) == [X \in Classes |-> m[X] + n[X]]

RECURSIVE constructOnNested(_, _, _, _, _, _)

\* Mutant: the comparison with Object[Symbol.hasInstance] is evaluated
\* before the constructor is applied, the defineProperty after it.
constructOnNested_GuardFirst(d, obj, h, a, at, inner) ==
    LET this == ctors[d]
        parent == IF this.parentCtor # 0
                  THEN constructOnNested(this.parentCtor, obj, h, a, at, inner)
                  ELSE [heap |-> h, armed |-> a, proto |-> BasePrototype,
                        installs |-> NoInstalls, threw |-> FALSE]
        guard == parent.armed[this.ctor] = 0
        nested == IF d = at THEN construct(inner, parent.heap, parent.armed)
                  ELSE [heap |-> parent.heap, armed |-> parent.armed, threw |-> FALSE]
        h1 == [nested.heap EXCEPT
                 ![obj].props = Initializer(this.ctor, @, this.params)]
        cell == [props |-> CloneProto(h1, this.ctor), proto |-> parent.proto]
        a1 == IF guard THEN [nested.armed EXCEPT ![this.ctor] = d] ELSE nested.armed
        n1 == Plus(parent.installs, Defined(parent.armed, nested.armed))
    IN  IF parent.threw THEN parent
        ELSE IF nested.threw \/ Throws(this.ctor, this.params)
        THEN [parent EXCEPT !.armed = nested.armed, !.installs = n1, !.threw = TRUE]
        ELSE [heap |-> Append(h1, cell),
              armed |-> a1,
              proto |-> Len(h1) + 1,
              installs |-> IF guard THEN [n1 EXCEPT ![this.ctor] = @ + 1] ELSE n1,
              threw |-> FALSE]

constructOnNested(d, obj, h, a, at, inner) ==
    LET this == ctors[d]
        parent == IF this.parentCtor # 0
                  THEN constructOnNested(this.parentCtor, obj, h, a, at, inner)
                  ELSE [heap |-> h, armed |-> a, proto |-> BasePrototype,
                        installs |-> NoInstalls, threw |-> FALSE]
        \* this.ctor.apply(obj, this.params): the constructor of `at` calls
        \* ctors[inner].construct() and then assigns its own fields.
        nested == IF d = at THEN construct(inner, parent.heap, parent.armed)
                  ELSE [heap |-> parent.heap, armed |-> parent.armed, threw |-> FALSE]
        h1 == [nested.heap EXCEPT
                 ![obj].props = Initializer(this.ctor, @, this.params)]
        cell == [props |-> CloneProto(h1, this.ctor), proto |-> parent.proto]
        \* if (this.ctor[Symbol.hasInstance] === Object[Symbol.hasInstance])
        \*     Object.defineProperty(...)
        a1 == Arm(nested.armed, this.ctor, d)
        n1 == Plus(parent.installs, Defined(parent.armed, nested.armed))
    IN  IF parent.threw THEN parent
        ELSE IF nested.threw \/ Throws(this.ctor, this.params)
        THEN [parent EXCEPT !.armed = nested.armed, !.installs = n1, !.threw = TRUE]
        ELSE [heap |-> Append(h1, cell),
              armed |-> a1,
              proto |-> Len(h1) + 1,
              installs |-> Plus(n1, Defined(nested.armed, a1)),
              threw |-> FALSE]

\* construct() of ctor d with the nested construct() described above.
constructNested(d, h, a, at, inner) ==
    LET self == NewSelf(h)
        h0 == Append(h, [props |-> <<>>, proto |-> 0])
    IN  constructOnNested(d, self, h0, a, at, inner)

(***************************************************************************)
(* The second version of the engine (ctor.ts:275-572) differs in           *)
(* constructOn: the class is instantiated with `new` and the own           *)
(* enumerable properties of the object it made are copied to self, and the *)
(* prototype is copied name by name.                                       *)
(***************************************************************************)
\* for (const prop of Object.getOwnPropertyNames(this.ctor.prototype)) ...
CloneProto2(h, clazz) ==
    [p \in DOMAIN h[PrototypeOf[clazz]].props |-> h[PrototypeOf[clazz]].props[p]]

RECURSIVE constructOn2(_, _, _, _)
constructOn2(d, self, h, a) ==
    LET this == ctors[d]
        parent == IF this.parentCtor # 0
                  THEN constructOn2(this.parentCtor, self, h, a)
                  ELSE [heap |-> h, armed |-> a, proto |-> BasePrototype,
                        calls |-> <<>>, threw |-> FALSE, error |-> UNDEF]
        \* const constructed = new this.ctor(...this.params)
        constructed == Len(parent.heap) + 1
        call == [ctor |-> this.ctor, params |-> this.params, this |-> constructed]
        made == Initializer(this.ctor, <<>>, this.params)
        h1 == Append(parent.heap, [props |-> made, proto |-> PrototypeOf[this.ctor]])
        \* for (const [ key, value ] of Object.entries(constructed)) self[key] = value
        h2 == [h1 EXCEPT ![self].props =
                 [f \in DOMAIN h1[self].props \cup DOMAIN made |->
                     IF f \in DOMAIN made THEN made[f] ELSE h1[self].props[f]]]
        cell == [props |-> CloneProto2(h2, this.ctor), proto |-> parent.proto]
    IN  IF parent.threw THEN parent
        ELSE IF Throws(this.ctor, this.params)
        THEN [parent EXCEPT !.calls = Append(@, call),
                            !.threw = TRUE,
                            !.error = Thrown(this.ctor)]
        ELSE [heap |-> Append(h2, cell),
              armed |-> Arm(parent.armed, this.ctor, d),
              proto |-> Len(h2) + 1,
              calls |-> Append(parent.calls, call),
              threw |-> FALSE,
              error |-> UNDEF]

construct2(d, h, a) ==
    LET self == NewSelf(h)
        h0 == IF self > Len(h) THEN Append(h, [props |-> <<>>, proto |-> 0])
              ELSE h
        r == constructOn2(d, self, h0, a)
    IN  [heap |-> IF r.threw THEN h ELSE [r.heap EXCEPT ![self].proto = r.proto],
         armed |-> r.armed,
         ctors |-> ctors,
         self |-> self,
         calls |-> r.calls,
         threw |-> r.threw,
         error |-> r.error]

\* Mutant: only the constructor of the immediate prototype is reported.
getPrototypeConstructors_OnlyFirst(h, obj) ==
    LET proto == getPrototypeOf(h, obj)
    IN  IF proto = 0 \/ Get(h, proto, "constructor") = UNDEF THEN <<>>
        ELSE <<Get(h, proto, "constructor")>>

RECURSIVE getPrototypeConstructors(_, _)

\* Mutant: the prototype linked to Base.prototype is walked over without
\* yielding its constructor.
getPrototypeConstructors_NoRoot(h, obj) ==
    LET proto == getPrototypeOf(h, obj)
    IN  IF proto = 0 \/ Get(h, proto, "constructor") = UNDEF THEN <<>>
        ELSE (IF getPrototypeOf(h, proto) = BasePrototype THEN <<>>
              ELSE <<Get(h, proto, "constructor")>>)
             \o getPrototypeConstructors(h, proto)

getPrototypeConstructors(h, obj) ==
    LET proto == getPrototypeOf(h, obj)
    IN  IF proto = 0 \/ Get(h, proto, "constructor") = UNDEF THEN <<>>
        ELSE <<Get(h, proto, "constructor")>> \o getPrototypeConstructors(h, proto)

RECURSIVE hasInstance(_, _, _)
hasInstance(d, h, instance) ==
    IF \E k \in 1..Len(getPrototypeConstructors(h, instance)) :
           getPrototypeConstructors(h, instance)[k] = ctors[d].ctor
    THEN TRUE
    ELSE IF ctors[d].parentCtor # 0
         THEN hasInstance(ctors[d].parentCtor, h, instance)
         ELSE FALSE

\* Function.prototype[Symbol.hasInstance]: is clazz.prototype on the chain?
RECURSIVE OrdinaryHasInstance(_, _, _)
OrdinaryHasInstance(clazz, h, obj) ==
    LET proto == getPrototypeOf(h, obj)
    IN  IF proto = 0 THEN FALSE
        ELSE IF proto = PrototypeOf[clazz] THEN TRUE
        ELSE OrdinaryHasInstance(clazz, h, proto)

\* instance instanceof clazz
InstanceOf(instance, clazz) ==
    IF armed[clazz] # 0 THEN hasInstance(armed[clazz], heap, instance)
    ELSE OrdinaryHasInstance(clazz, heap, instance)

(***************************************************************************)
(* Base._super                                                             *)
(***************************************************************************)
\* Mutant: the Proxy wraps the receiver's own prototype.
superClass_Own(h, this) == getPrototypeOf(h, this)

\* Mutant: the Proxy wraps the prototype one link further up.
superClass_Grandparent(h, this) ==
    getPrototypeOf(h, getPrototypeOf(h, getPrototypeOf(h, this)))

\* The Proxy target: the prototype of the prototype of the receiver.
superClass(h, this) == getPrototypeOf(h, getPrototypeOf(h, this))

\* Mutant: the function is bound to the Proxy target instead of self.
super_get_Unbound(h, self, prop) ==
    LET value == Get(h, superClass(h, self), prop)
    IN  [fn |-> value, this |-> superClass(h, self)]

\* Mutant: the get trap binds whatever it finds.
super_get_BindAll(h, self, prop) ==
    LET value == Get(h, superClass(h, self), prop)
    IN  [fn |-> value, this |-> self]

\* value instanceof Function: methods and classes are functions, `undefined`
\* and the value client code assigns are not.
IsFunction(value) == value \notin {UNDEF, Mutated}

\* The Proxy get trap: the value found on the target, bound to self when it
\* is a function and as it is otherwise (this = 0: nothing is bound).
super_get(h, self, prop) ==
    LET value == Get(h, superClass(h, self), prop)
    IN  [fn |-> value, this |-> IF IsFunction(value) THEN self ELSE 0]

(***************************************************************************)
(* Initial state and operations.                                           *)
(***************************************************************************)
Init ==
    /\ ctors = <<>>
    /\ ext = 0
    /\ heap = InitialHeap
    /\ armed = [c \in Classes |-> 0]
    /\ instances = <<>>
    /\ stack = <<>>
    /\ writes = 0
    /\ last = "none"

Idle == stack = <<>>

\* ctor.new(clazz, ...params)
New(clazz, params) ==
    /\ Idle /\ Len(ctors) < MaxCtors
    /\ ctors' = Append(ctors, ctor_new(clazz, params))
    /\ last' = "new"
    /\ UNCHANGED <<ext, heap, armed, instances, stack, writes>>

\* ctor.newAbstract(clazz, ...params)
NewAbstract(clazz, params) ==
    /\ Idle /\ Len(ctors) < MaxCtors
    /\ ctors' = Append(ctors, ctor_newAbstract(clazz, params))
    /\ last' = "newAbstract"
    /\ UNCHANGED <<ext, heap, armed, instances, stack, writes>>

\* from(superCtor).new(child, ...params)
FromNew(superCtor, child, params) ==
    /\ Idle /\ superCtor \in 1..Len(ctors) /\ Len(ctors) < MaxCtors
    /\ ext' = from(superCtor)
    /\ ctors' = Append(ctors, Extended_new(from(superCtor), child, params))
    /\ last' = "from"
    /\ UNCHANGED <<heap, armed, instances, stack, writes>>

\* handle.new(child, ...params) on the handle an earlier from() returned.
HandleNew(child, params) ==
    /\ Idle /\ ext # 0 /\ Len(ctors) < MaxCtors
    /\ ctors' = Append(ctors, Extended_new(ext, child, params))
    /\ last' = "handle"
    /\ UNCHANGED <<ext, heap, armed, instances, stack, writes>>

\* ctor.construct(): the caller keeps the instance returned, or catches the
\* exception thrown.
Construct(d) ==
    /\ Idle /\ d \in 1..Len(ctors) /\ Len(instances) < MaxInst
    /\ LET r == construct(d, heap, armed)
       IN  /\ heap' = r.heap
           /\ armed' = r.armed
           /\ ctors' = r.ctors
           /\ instances' = IF r.threw THEN instances
                            ELSE Append(instances, [ref |-> r.self, from |-> d])
    /\ UNCHANGED <<ext, stack, writes, last>>

\* Client code assigns a field of an instance it holds.
SetField(i, f) ==
    /\ Idle /\ i \in 1..Len(instances) /\ writes < MaxWrites
    /\ f \in DOMAIN heap[instances[i].ref].props
    /\ heap' = [heap EXCEPT ![instances[i].ref].props = [@ EXCEPT ![f] = Mutated]]
    /\ writes' = writes + 1
    /\ UNCHANGED <<ctors, ext, armed, instances, stack, last>>

\* Client code calls instance.m() or instance.size(); the method found on
\* the prototype chain starts running with the instance as receiver.
Call(i, name) ==
    /\ Idle /\ i \in 1..Len(instances)
    /\ Get(heap, instances[i].ref, name) # UNDEF
    /\ stack' = <<[fn |-> Get(heap, instances[i].ref, name),
                   this |-> instances[i].ref]>>
    /\ UNCHANGED <<ctors, ext, heap, armed, instances, writes, last>>

Top == stack[Len(stack)]

\* The running method evaluates this._super.m() (this._super.size() in
\* size): the callee starts running; calling a non-function throws a TypeError
\* and exhausting the call stack a RangeError, and either aborts the whole
\* call.
SuperCall ==
    /\ stack # <<>> /\ Top.fn \in Delegating
    /\ LET callee == super_get(heap, Top.this, MethodName[Top.fn])
       IN  IF ~IsFunction(callee.fn) \/ Len(stack) >= MaxStack
           THEN stack' = <<>>
           ELSE stack' = Append(stack, callee)
    /\ UNCHANGED <<ctors, ext, heap, armed, instances, writes, last>>

\* The running method does not delegate: it returns and the callers unwind.
Return ==
    /\ stack # <<>> /\ Top.fn \notin Delegating
    /\ stack' = <<>>
    /\ UNCHANGED <<ctors, ext, heap, armed, instances, writes, last>>

Next ==
    \/ \E clazz \in Classes : \E params \in ParamsOf(clazz) : New(clazz, params)
    \/ \E clazz \in Classes : \E params \in ParamsOf(clazz) : NewAbstract(clazz, params)
    \/ \E d \in 1..MaxCtors : \E clazz \in Classes : \E params \in ParamsOf(clazz) :
          FromNew(d, clazz, params)
    \/ \E clazz \in Classes : \E params \in ParamsOf(clazz) : HandleNew(clazz, params)
    \/ \E d \in 1..MaxCtors : Construct(d)
    \/ \E i \in 1..MaxInst : \E f \in AllFields : SetField(i, f)
    \/ \E i \in 1..MaxInst : \E name \in Callable : Call(i, name)
    \/ SuperCall
    \/ Return

Spec == Init /\ [][Next]_vars

(***************************************************************************)
(* The sets of injection_test.ts: createOptimizedSet() picks SparseSet     *)
(* (Foo) or DenseSet (Bar) at run time, MutableSet (Baz) is chained onto   *)
(* whatever it returned, and the sets are constructed and queried.         *)
(***************************************************************************)
\* createOptimizedSet(items): SparseSet.from(items) or DenseSet.from(items)
createOptimizedSet(clazz, params) ==
    /\ Idle /\ Len(ctors) < MaxScenarioCtors
    /\ ctors' = Append(ctors, ctor_new(clazz, params))
    /\ last' = "new"
    /\ UNCHANGED <<ext, heap, armed, instances, stack, writes>>

\* from(createOptimizedSet(items)).new(MutableSet, { maxSize })
MutableSet_from(superCtor) ==
    /\ Idle /\ superCtor \in 1..Len(ctors) /\ Len(ctors) < MaxScenarioCtors
    /\ ctors[superCtor].ctor \in {"Foo", "Bar"}
    /\ ext' = from(superCtor)
    /\ ctors' = Append(ctors, Extended_new(from(superCtor), "Baz", <<"e">>))
    /\ last' = "from"
    /\ UNCHANGED <<heap, armed, instances, stack, writes>>

NextSets ==
    \/ \E clazz \in {"Foo", "Bar"} : \E params \in ParamsOf(clazz) :
          createOptimizedSet(clazz, params)
    \/ \E d \in 1..MaxScenarioCtors : MutableSet_from(d)
    \/ \E d \in 1..MaxScenarioCtors : Construct(d)
    \/ \E i \in 1..MaxInst : \E name \in Callable : Call(i, name)
    \/ SuperCall
    \/ Return

SpecSets == Init /\ [][NextSets]_vars

(***************************************************************************)
(* The Foo / Bar fixture of clone_test.ts, injection_test.ts and           *)
(* coupling_test.ts: Foo's factories, Bar chained onto a ctor<Foo>,        *)
(* clone(), and client code that assigns fields and patches methods.       *)
(***************************************************************************)
\* Foo.fromNumber(foo) / Foo.fromString(foo) / Foo.fromFooId(id)
Foo_from(params) ==
    /\ Idle /\ Len(ctors) < MaxScenarioCtors
    /\ ctors' = Append(ctors, ctor_new("Foo", params))
    /\ last' = "new"
    /\ UNCHANGED <<ext, heap, armed, instances, stack, writes>>

\* Bar.fromBar(superCtor, bar): from(superCtor).new(Bar, { bar })
Bar_fromBar(superCtor) ==
    /\ Idle /\ superCtor \in 1..Len(ctors) /\ Len(ctors) < MaxScenarioCtors
    /\ ctors[superCtor].ctor = "Foo"
    /\ ext' = from(superCtor)
    /\ ctors' = Append(ctors, Extended_new(from(superCtor), "Bar", <<"c", "d">>))
    /\ last' = "from"
    /\ UNCHANGED <<heap, armed, instances, stack, writes>>

\* Foo.prototype.clone: ctor.new(Foo, { foo: this.foo })
Foo_clone(h, this) == ctor_new("Foo", <<Get(h, this, "foo")>>)

\* Bar.prototype.clone: from(this._super.clone()).new(Bar, { bar: this.bar }),
\* where superClone is the ctor this._super.clone() returned.
Bar_clone(h, this, superClone) ==
    Extended_new(from(superClone), "Bar", <<Get(h, this, "bar"), Get(h, this, "qux")>>)

\* Client code calls instance.clone() and keeps the ctor returned.
clone(i) ==
    /\ Idle /\ i \in 1..Len(instances)
    /\ LET this == instances[i].ref
           method == Get(heap, this, "clone")
           callee == super_get(heap, this, "clone")
       IN  \/ /\ method = "Foo.clone"
              /\ Len(ctors) + 1 <= MaxScenarioCtors
              /\ ctors' = Append(ctors, Foo_clone(heap, this))
              /\ ext' = ext
           \/ /\ method = "Bar.clone" /\ callee.fn = "Foo.clone"
              /\ Len(ctors) + 2 <= MaxScenarioCtors
              /\ ctors' = Append(Append(ctors, Foo_clone(heap, callee.this)),
                                 Bar_clone(heap, this, Len(ctors) + 1))
              /\ ext' = from(Len(ctors) + 1)
    /\ last' = "clone"
    /\ UNCHANGED <<heap, armed, instances, stack, writes>>

\* The prototype k links above ref (1: the prototype of ref itself).
RECURSIVE PrototypeAbove(_, _, _)
PrototypeAbove(h, ref, k) ==
    IF k = 1 THEN getPrototypeOf(h, ref)
    ELSE PrototypeAbove(h, getPrototypeOf(h, ref), k - 1)

\* Client code assigns m on one of the prototypes of an instance.
SetMethod(i, k) ==
    /\ Idle /\ i \in 1..Len(instances) /\ writes < MaxWrites
    /\ k \in 1..Len(getPrototypeConstructors(heap, instances[i].ref)) - 1
    /\ heap' = [heap EXCEPT
                  ![PrototypeAbove(heap, instances[i].ref, k)].props =
                      [@ EXCEPT !["m"] = Mutated]]
    /\ writes' = writes + 1
    /\ UNCHANGED <<ctors, ext, armed, instances, stack, last>>

\* Client code assigns clazz.prototype.m.
SetClassMethod(clazz) ==
    /\ Idle /\ writes < MaxWrites
    /\ heap' = [heap EXCEPT ![PrototypeOf[clazz]].props = [@ EXCEPT !["m"] = Mutated]]
    /\ writes' = writes + 1
    /\ UNCHANGED <<ctors, ext, armed, instances, stack, last>>

NextFixture ==
    \/ \E params \in ParamsOf("Foo") : Foo_from(params)
    \/ \E d \in 1..MaxScenarioCtors : Bar_fromBar(d)
    \/ \E d \in 1..MaxScenarioCtors : Construct(d)
    \/ \E i \in 1..MaxInst : \E f \in AllFields : SetField(i, f)
    \/ \E i \in 1..MaxInst : clone(i)
    \/ \E i \in 1..MaxInst : \E k \in 1..MaxScenarioCtors : SetMethod(i, k)
    \/ \E clazz \in {"Foo", "Bar"} : SetClassMethod(clazz)

SpecFixture == Init /\ [][NextFixture]_vars

(***************************************************************************)
(* Vocabulary of the properties.                                           *)
(***************************************************************************)
\* The ctors of the chain of d, root first.
RECURSIVE ChainOf(_)
ChainOf(d) ==
    IF ctors[d].parentCtor = 0 THEN <<d>>
    ELSE Append(ChainOf(ctors[d].parentCtor), d)

Depth(d) == Len(ChainOf(d))

\* The class of level k (1: root) of the chain of d.
LevelClass(d, k) == ctors[ChainOf(d)[k]].ctor

ChainClasses(d) == {LevelClass(d, k) : k \in 1..Depth(d)}

FieldsOfClass(clazz) == {FieldNames[clazz][k] : k \in 1..Len(FieldNames[clazz])}

ChainFields(d) == UNION {FieldsOfClass(c) : c \in ChainClasses(d)}

\* No two levels of the chain of d assign the same field name.
DisjointFields(d) ==
    \A j, k \in 1..Depth(d) :
        j # k => FieldsOfClass(LevelClass(d, j)) \cap FieldsOfClass(LevelClass(d, k)) = {}

\* What the initializers of a chain with disjoint fields assign: each field
\* from the arguments captured by the level that declares it.
ExpectedFields(d) ==
    [f \in ChainFields(d) |->
        LET k == CHOOSE k \in 1..Depth(d) : f \in FieldsOfClass(LevelClass(d, k))
            c == ctors[ChainOf(d)[k]]
            n == CHOOSE n \in 1..Len(FieldNames[c.ctor]) : FieldNames[c.ctor][n] = f
        IN  c.params[n]]

\* Two levels of the chain of d assign field f.
Collides(d, f) ==
    \E j, k \in 1..Depth(d) :
        j # k /\ f \in FieldsOfClass(LevelClass(d, j)) /\ f \in FieldsOfClass(LevelClass(d, k))

\* The argument the level nearest the leaf that assigns f passes for it.
LastWritten(d, f) ==
    LET k == CHOOSE k \in 1..Depth(d) :
                 /\ f \in FieldsOfClass(LevelClass(d, k))
                 /\ \A j \in (k + 1)..Depth(d) : f \notin FieldsOfClass(LevelClass(d, j))
        c == ctors[ChainOf(d)[k]]
        n == CHOOSE n \in 1..Len(FieldNames[c.ctor]) : FieldNames[c.ctor][n] = f
    IN  c.params[n]

Insts == 1..Len(instances)

Fields(i) == heap[instances[i].ref].props

\* No client assignment has touched instance i.
Pristine(i) == \A f \in DOMAIN Fields(i) : Fields(i)[f] # Mutated

\* The number of fields, over all instances held, that hold a client-assigned value.
MutatedCount ==
    Cardinality({<<i, f>> \in Insts \X AllFields :
                    f \in DOMAIN Fields(i) /\ Fields(i)[f] = Mutated})

\* The instance a running call was started on.
Receiver == stack[1].this

CallChain == (CHOOSE i \in Insts : instances[i].ref = Receiver)

\* The method a running call was started for.
Called == MethodName[stack[1].fn]

\* Some level of the chain of d has a constructor that throws; the first.
Throwing(d) ==
    \E k \in 1..Depth(d) : Throws(LevelClass(d, k), ctors[ChainOf(d)[k]].params)

FirstThrowing(d) ==
    CHOOSE k \in 1..Depth(d) :
        /\ Throws(LevelClass(d, k), ctors[ChainOf(d)[k]].params)
        /\ \A j \in 1..(k - 1) : ~Throws(LevelClass(d, j), ctors[ChainOf(d)[j]].params)

\* What class clazz declares for the method of the running call.
MethodOf(clazz) == heap[PrototypeOf[clazz]].props[Called]

(***************************************************************************)
(* C1: an instance is not a member of a class that is the target of no     *)
(* level of the chain it was built from; in particular an instance of a    *)
(* root-only ctor for Foo is not a member of Bar, also after a Foo->Bar    *)
(* chain was materialized and armed Bar.                                   *)
(***************************************************************************)
C1_NotMemberOfUnrelated ==
    \A i \in Insts : \A X \in Classes :
        X \notin ChainClasses(instances[i].from) => ~InstanceOf(instances[i].ref, X)

(***************************************************************************)
(* C2: an instance materialized from a chain of N levels is a member of    *)
(* the class of every one of the N levels, right after construct() and     *)
(* after any later materialization of other ctors.                         *)
(***************************************************************************)
C2_MemberOfEveryLevel ==
    \A i \in Insts : \A k \in 1..Depth(instances[i].from) :
        InstanceOf(instances[i].ref, LevelClass(instances[i].from, k))

C2_Witness ==
    /\ Len(instances) = 2
    /\ Depth(instances[1].from) = 3
    /\ instances[2].from # instances[1].from
    /\ \A k \in 1..3 : InstanceOf(instances[1].ref, LevelClass(instances[1].from, k))

(***************************************************************************)
(* C3: chained delegation.  While a call runs on an instance of an N-level *)
(* chain, the k-th method on the call stack (the leaf's m, then what each  *)
(* this._super.m() reached) is the m of level N-k+1, bound to the          *)
(* instance: the delegation made in level j reaches level j-1 for every j, *)
(* so in a 3-level chain the second delegation reaches the root's m.       *)
(***************************************************************************)
C3_ChainedDelegation ==
    \A k \in 1..Len(stack) :
        LET d == instances[CallChain].from
        IN  Depth(d) - k + 1 >= 1 =>
               /\ stack[k].fn = MethodOf(LevelClass(d, Depth(d) - k + 1))
               /\ stack[k].this = Receiver

(***************************************************************************)
(* C4: a leaf-level method that reads m through this._super obtains the m  *)
(* of the immediate ancestor level (not the leaf's own), and that m runs   *)
(* with the original instance as receiver, which holds the fields of all   *)
(* levels.                                                                 *)
(***************************************************************************)
C4_LeafDelegation ==
    Len(stack) >= 2 =>
        LET d == instances[CallChain].from
        IN  /\ Depth(d) >= 2
            /\ stack[1].fn = MethodOf(LevelClass(d, Depth(d)))
            /\ stack[2].fn = MethodOf(LevelClass(d, Depth(d) - 1))
            /\ stack[2].this = Receiver
            /\ DOMAIN heap[stack[2].this].props = ChainFields(d)

C4_Witness ==
    /\ Len(stack) = 2
    /\ stack[1].fn = "Bar.m"
    /\ stack[2].fn = "Foo.m"
    /\ stack[2].this = Receiver
    /\ DOMAIN heap[Receiver].props = {"foo", "bar", "qux"}

(***************************************************************************)
(* C5: for a chain of N >= 1 levels whose initializers assign pairwise     *)
(* disjoint field names, construct() returns an instance whose fields are  *)
(* exactly the union of what the N initializers assign, each from the      *)
(* arguments captured at its own level.                                    *)
(***************************************************************************)
C5_FieldsAreUnion ==
    \A i \in Insts :
        DisjointFields(instances[i].from) =>
            /\ DOMAIN Fields(i) = ChainFields(instances[i].from)
            /\ Pristine(i) => Fields(i) = ExpectedFields(instances[i].from)
            /\ MutatedCount <= writes

C5_Witness ==
    \E i, j \in Insts :
        /\ Depth(instances[i].from) = 3 /\ DisjointFields(instances[i].from)
        /\ Pristine(i)
        /\ Fields(i) = [foo |-> "b", bar |-> "c", qux |-> "d", baz |-> "e"]
        /\ Depth(instances[j].from) = 1
        /\ Fields(j) = [foo |-> "b"]

(***************************************************************************)
(* C6: the instances construct() returns for one ctor are pairwise         *)
(* distinct objects with equal field names and values, and a field         *)
(* assigned on one of them does not change any other.                      *)
(***************************************************************************)
C6_IndependentInstances ==
    \A i, j \in Insts :
        (i # j /\ instances[i].from = instances[j].from) =>
            /\ instances[i].ref # instances[j].ref
            /\ DOMAIN Fields(i) = DOMAIN Fields(j)
            /\ (Pristine(i) /\ Pristine(j)) => Fields(i) = Fields(j)
            /\ MutatedCount <= writes

C6_Witness ==
    \E i, j \in Insts :
        /\ i # j /\ instances[i].from = instances[j].from
        /\ Depth(instances[i].from) = 2
        /\ Fields(i) = [foo |-> Mutated, bar |-> "c", qux |-> "d"]
        /\ Fields(j) = [foo |-> "a", bar |-> "c", qux |-> "d"]

(***************************************************************************)
(* C7: when one parent ctor P is extended twice, into C1 and C2, the       *)
(* instances of C1 and C2 are distinct, each carries P's fields and is a   *)
(* member of P's class, and a field assigned on one is seen neither on the *)
(* other nor in a later materialization of P, C1 or C2.                    *)
(***************************************************************************)
Siblings(c1, c2) ==
    c1 # c2 /\ ctors[c1].parentCtor # 0 /\ ctors[c1].parentCtor = ctors[c2].parentCtor

C7_SiblingsIndependent ==
    \A c1, c2 \in 1..Len(ctors) :
        Siblings(c1, c2) =>
            LET P == ctors[c1].parentCtor
            IN  /\ \A i, j \in Insts :
                       (instances[i].from = c1 /\ instances[j].from = c2) =>
                           instances[i].ref # instances[j].ref
                /\ \A i \in Insts :
                       instances[i].from \in {c1, c2} =>
                           /\ ChainFields(P) \subseteq DOMAIN Fields(i)
                           /\ InstanceOf(instances[i].ref, ctors[P].ctor)
                           /\ DisjointFields(instances[i].from) =>
                                  \A f \in ChainFields(P) :
                                      Fields(i)[f] \in {ExpectedFields(P)[f], Mutated}
                /\ \A i \in Insts :
                       (/\ instances[i].from \in {P, c1, c2}
                        /\ DisjointFields(instances[i].from)
                        /\ Pristine(i)) =>
                           Fields(i) = ExpectedFields(instances[i].from)
                /\ MutatedCount <= writes

C7_Witness ==
    \E i, j \in Insts :
        /\ Siblings(instances[i].from, instances[j].from)
        /\ ctors[instances[i].from].ctor = "Bar"
        /\ ctors[instances[j].from].ctor = "Baz"
        /\ Fields(i) = [foo |-> Mutated, bar |-> "c", qux |-> "d"]
        /\ Fields(j) = [foo |-> "a", baz |-> "e"]
        /\ InstanceOf(instances[i].ref, "Foo")
        /\ InstanceOf(instances[j].ref, "Foo")

(***************************************************************************)
(* C8: a ctor is immutable and never consumed: no operation changes its    *)
(* class, its captured parameters or its parent, and after any number of   *)
(* construct() calls it can still be materialized.                         *)
(***************************************************************************)
\* construct() on d, from the current state, still yields a fresh d-instance.
Materializable(d) ==
    LET r == construct(d, heap, armed)
    IN  /\ ctors[d].parentCtor < d
        /\ r.self \notin {instances[i].ref : i \in Insts}
        /\ ~Throwing(d) =>
               /\ DOMAIN r.heap[r.self].props = ChainFields(d)
               /\ DisjointFields(d) => r.heap[r.self].props = ExpectedFields(d)

C8_CtorImmutable ==
    /\ [][\A d \in 1..Len(ctors) : d <= Len(ctors') /\ ctors'[d] = ctors[d]]_vars
    /\ [](\A d \in 1..Len(ctors) : Materializable(d))

C8_Witness ==
    \E d \in 1..Len(ctors) :
        /\ \E c \in 1..Len(ctors) : ctors[c].parentCtor = d
        /\ \A i \in Insts : instances[i].from = d
        /\ Len(instances) = 2
        /\ writes = 1
        /\ Materializable(d)

(***************************************************************************)
(* C9: from(P).new(childClass, ownArgs...) returns a new ctor D, distinct  *)
(* from P, with parent P, class childClass and parameters ownArgs in the   *)
(* given order; P itself is unchanged.                                     *)
(***************************************************************************)
IsNewChild(P, child, params) ==
    /\ Len(ctors') = Len(ctors) + 1
    /\ Len(ctors') # P
    /\ ctors'[Len(ctors')].parentCtor = P
    /\ ctors'[Len(ctors')].ctor = child
    /\ ctors'[Len(ctors')].params = params
    /\ ctors'[P] = ctors[P]

C9_ExtendLinksParent ==
    [][\A child \in Classes : \A params \in ParamsOf(child) :
          /\ \A P \in 1..Len(ctors) :
                 FromNew(P, child, params) => IsNewChild(P, child, params)
          /\ HandleNew(child, params) => IsNewChild(ext, child, params)]_vars

C9_Witness ==
    /\ last = "from"
    /\ ctors[Len(ctors)] = [parentCtor |-> 1, ctor |-> "Bar", params |-> <<"c", "d">>]
    /\ ext = 1
    /\ ctors[1].ctor = "Foo"

(***************************************************************************)
(* C10: ctor.new and ctor.newAbstract always succeed and return a ctor     *)
(* with no parent, the given class and the given parameters; for the same  *)
(* class and parameters the two return ctors that cannot be told apart by  *)
(* materializing or extending them.                                        *)
(***************************************************************************)
IsNewRoot(clazz, params) ==
    /\ Len(ctors') = Len(ctors) + 1
    /\ ctors'[Len(ctors')] = [parentCtor |-> 0, ctor |-> clazz, params |-> params]

RootsAvailable ==
    (Idle /\ Len(ctors) < MaxCtors) =>
        \A clazz \in Classes : \A params \in ParamsOf(clazz) :
            /\ ENABLED New(clazz, params)
            /\ ENABLED NewAbstract(clazz, params)

\* The classes and captured parameters of the chain of d, root first.
ChainSignature(d) ==
    [k \in 1..Depth(d) |-> <<LevelClass(d, k), ctors[ChainOf(d)[k]].params>>]

\* Instances of chains that agree level by level, whichever factory made
\* their root, have the same fields and the same membership answers.
SameChainSameInstance ==
    \A i, j \in Insts :
        ChainSignature(instances[i].from) = ChainSignature(instances[j].from) =>
            /\ (Pristine(i) /\ Pristine(j)) => Fields(i) = Fields(j)
            /\ \A X \in Classes :
                   InstanceOf(instances[i].ref, X) = InstanceOf(instances[j].ref, X)

C10_RootFactoriesAgree ==
    /\ [][/\ \A clazz \in Classes : \A params \in ParamsOf(clazz) :
                 /\ New(clazz, params) => IsNewRoot(clazz, params)
                 /\ NewAbstract(clazz, params) => IsNewRoot(clazz, params)
                 /\ ctor_new(clazz, params) = ctor_newAbstract(clazz, params)
           /\ RootsAvailable]_vars
    /\ []SameChainSameInstance

C10_Witness ==
    /\ last = "newAbstract"
    /\ ctors[Len(ctors)] = [parentCtor |-> 0, ctor |-> "Foo", params |-> <<"a">>]
    /\ \E i \in Insts :
          /\ instances[i].from = Len(ctors)
          /\ Fields(i) = [foo |-> "a"]
          /\ InstanceOf(instances[i].ref, "Foo")

(***************************************************************************)
(* C11: Symbol.hasInstance is installed once per class.  A construct()     *)
(* that returns an instance leaves every class of the chain armed; a class *)
(* that was not armed before is armed by the root-most ctor of that chain  *)
(* with this class; and once a class is armed no later step replaces or    *)
(* removes what was installed.                                             *)
(***************************************************************************)
\* The root-most ctor of the chain of d whose class is X.
FirstOfClass(d, X) ==
    ChainOf(d)[CHOOSE k \in 1..Depth(d) :
                  /\ LevelClass(d, k) = X
                  /\ \A j \in 1..(k - 1) : LevelClass(d, j) # X]

C11_ArmedOnce ==
    /\ [][\A X \in Classes :
             /\ armed[X] # 0 => armed'[X] = armed[X]
             /\ (/\ armed[X] = 0
                 /\ Len(instances') > Len(instances)
                 /\ X \in ChainClasses(instances'[Len(instances')].from)) =>
                    armed'[X] = FirstOfClass(instances'[Len(instances')].from, X)]_vars
    /\ [](\A i \in Insts : \A X \in ChainClasses(instances[i].from) :
              armed[X] # 0 /\ ctors[armed[X]].ctor = X)

C11_Witness ==
    \E i, j \in Insts :
        /\ i < j
        /\ instances[i].from # instances[j].from
        /\ ctors[instances[i].from].ctor = "Bar"
        /\ "Bar" \in ChainClasses(instances[j].from)
        /\ armed["Bar"] = instances[i].from

(***************************************************************************)
(* C12: on an instance, every method declared by the class of any level of *)
(* its chain is found, and a method name declared by several levels        *)
(* resolves to the declaration of the level nearest the leaf, whatever the *)
(* declared prototypes of the classes inherit from.                        *)
(***************************************************************************)
MethodsOfClass(clazz) == DOMAIN heap[PrototypeOf[clazz]].props \ {"constructor"}

\* The level nearest the leaf of the chain of d whose class declares p.
NearestLevel(d, p) ==
    CHOOSE k \in 1..Depth(d) :
        /\ p \in MethodsOfClass(LevelClass(d, k))
        /\ \A j \in (k + 1)..Depth(d) : p \notin MethodsOfClass(LevelClass(d, j))

C12_MethodResolution ==
    \A i \in Insts :
        LET d == instances[i].from
        IN  \A k \in 1..Depth(d) : \A p \in MethodsOfClass(LevelClass(d, k)) :
                Get(heap, instances[i].ref, p) =
                    heap[PrototypeOf[LevelClass(d, NearestLevel(d, p))]].props[p]

C12_Witness ==
    \E i \in Insts :
        /\ ChainSignature(instances[i].from) =
               <<<<"Foo", <<"a">>>>, <<"Bar", <<"c", "d">>>>, <<"Baz", <<"e">>>>>>
        /\ Get(heap, instances[i].ref, "size") = "Baz.size"
        /\ Get(heap, instances[i].ref, "add") = "Baz.add"
        /\ Get(heap, instances[i].ref, "clone") = "Bar.clone"

(***************************************************************************)
(* C13: when the constructor of some level throws during construct(), the  *)
(* exception it threw is what construct() throws, no instance is returned, *)
(* and the constructors invoked are those of the levels from the root to   *)
(* the throwing one, each once: no later level is run and none is retried. *)
(***************************************************************************)
\* The constructor invocation construct() on d makes for level k.
CallOfLevel(d, k) ==
    [ctor |-> LevelClass(d, k), params |-> ctors[ChainOf(d)[k]].params, this |-> NewSelf(heap)]

C13_FailurePropagates ==
    /\ \A d \in 1..Len(ctors) :
           Throwing(d) =>
               LET r == construct(d, heap, armed)
               IN  /\ r.threw
                   /\ r.error = Thrown(LevelClass(d, FirstThrowing(d)))
                   /\ r.calls = [k \in 1..FirstThrowing(d) |-> CallOfLevel(d, k)]
                   /\ r.heap = heap
    /\ \A i \in Insts : ~Throwing(instances[i].from)

C13_Witness ==
    /\ instances = <<>>
    /\ armed["Foo"] # 0
    /\ armed["Bar"] = 0
    /\ \E d \in 1..Len(ctors) :
          /\ Depth(d) = 3 /\ FirstThrowing(d) = 2
          /\ LevelClass(d, 1) = "Foo" /\ LevelClass(d, 3) = "Bar"
          /\ construct(d, heap, armed).error = "TypeError(Baz)"

(***************************************************************************)
(* C14: construct() throws only what a constructor throws.  For every ctor *)
(* whose constructors all succeed, however it was made (by a handle that   *)
(* already produced another child, or by ctor.new for a class that extends *)
(* Implementation), construct() returns an instance, and the constructors  *)
(* on its prototype chain are exactly the classes of the ctor's own chain, *)
(* leaf first, followed by Base.                                           *)
(***************************************************************************)
Ancestry(d) ==
    [k \in 1..(Depth(d) + 1) |->
        IF k <= Depth(d) THEN LevelClass(d, Depth(d) - k + 1) ELSE "Base"]

C14_NoEngineFailure ==
    /\ \A d \in 1..Len(ctors) :
           ~Throwing(d) =>
               LET r == construct(d, heap, armed)
               IN  /\ ~r.threw
                   /\ getPrototypeConstructors(r.heap, r.self) = Ancestry(d)
    /\ \A i \in Insts :
           getPrototypeConstructors(heap, instances[i].ref) = Ancestry(instances[i].from)

C14_Witness ==
    /\ last = "handle"
    /\ Len(ctors) = 3
    /\ ctors[1] = [parentCtor |-> 0, ctor |-> "Bar", params |-> <<"c", "d">>]
    /\ ctors[2].parentCtor = 1 /\ ctors[3].parentCtor = 1
    /\ Len(instances) = 2
    /\ instances[1].from = 1 /\ instances[2].from = 3
    /\ getPrototypeConstructors(heap, instances[1].ref) = <<"Bar", "Base">>
    /\ getPrototypeConstructors(heap, instances[2].ref) = <<ctors[3].ctor, "Bar", "Base">>

(***************************************************************************)
(* C15: clone round trip.  For an instance b of a Foo -> Bar chain,        *)
(* b.clone() returns a Bar ctor with the current bar and qux of b, chained *)
(* onto the Foo ctor this._super.clone() made from the current foo of b;   *)
(* an instance constructed from it is an object other than b (and than any *)
(* other instance), carries those field values, and is a member of Foo and *)
(* of Bar.                                                                 *)
(***************************************************************************)
IsFooBar(d) == Depth(d) = 2 /\ LevelClass(d, 1) = "Foo" /\ LevelClass(d, 2) = "Bar"

C15_CloneRoundTrip ==
    /\ [][\A i \in Insts :
             (clone(i) /\ IsFooBar(instances[i].from)) =>
                 ctors' = ctors \o
                     << [parentCtor |-> 0, ctor |-> "Foo",
                         params |-> <<Fields(i)["foo"]>>],
                        [parentCtor |-> Len(ctors) + 1, ctor |-> "Bar",
                         params |-> <<Fields(i)["bar"], Fields(i)["qux"]>>] >>]_vars
    /\ []((last = "clone" /\ IsFooBar(Len(ctors))) =>
             \A j \in Insts :
                 instances[j].from = Len(ctors) =>
                     /\ \A i \in Insts \ {j} : instances[i].ref # instances[j].ref
                     /\ InstanceOf(instances[j].ref, "Foo")
                     /\ InstanceOf(instances[j].ref, "Bar")
                     /\ DOMAIN Fields(j) = {"foo", "bar", "qux"}
                     /\ \A f \in DOMAIN Fields(j) :
                            Fields(j)[f] \in {ExpectedFields(Len(ctors))[f], Mutated})

C15_Witness ==
    /\ last = "clone"
    /\ Len(instances) = 2
    /\ IsFooBar(instances[1].from)
    /\ instances[2].from = Len(ctors)
    /\ instances[2].from # instances[1].from
    /\ instances[2].ref # instances[1].ref
    /\ Fields(1) = [foo |-> Mutated, bar |-> "c", qux |-> "d"]
    /\ Fields(2) = Fields(1)
    /\ InstanceOf(instances[2].ref, "Foo")
    /\ InstanceOf(instances[2].ref, "Bar")

(***************************************************************************)
(* C16: one child class chained at run time onto ctors of different parent *)
(* classes.  Every instance of a chain of two levels is a member of the    *)
(* child class and of the parent class of its own chain; while a method of *)
(* the child that delegates through this._super runs, the method it        *)
(* reached is the one the parent class of its own chain declares, bound to *)
(* the instance; and size() of the child returns after that one call.      *)
(* This holds whichever parent class was materialized first.               *)
(***************************************************************************)
\* The class of the level below the leaf of the chain of d.
ParentClass(d) == LevelClass(d, Depth(d) - 1)

C16_ParentChosenAtRunTime ==
    /\ \A i \in Insts :
           Depth(instances[i].from) >= 2 =>
               /\ InstanceOf(instances[i].ref, ctors[instances[i].from].ctor)
               /\ InstanceOf(instances[i].ref, ParentClass(instances[i].from))
    /\ (Len(stack) >= 2 /\ stack[1].fn \in Delegating) =>
           LET d == instances[CallChain].from
           IN  /\ Depth(d) >= 2
               /\ stack[2] = [fn |-> heap[PrototypeOf[ParentClass(d)]].props[Called],
                               this |-> Receiver]
               /\ Called = "size" => (Len(stack) = 2 /\ stack[2].fn \notin Delegating)

C16_Witness ==
    /\ Len(instances) = 2
    /\ ChainClasses(instances[1].from) = {"Bar", "Baz"}
    /\ ChainClasses(instances[2].from) = {"Foo", "Baz"}
    /\ ctors[instances[1].from].ctor = "Baz"
    /\ ctors[instances[2].from].ctor = "Baz"
    /\ InstanceOf(instances[1].ref, "Baz") /\ InstanceOf(instances[1].ref, "Bar")
    /\ InstanceOf(instances[2].ref, "Baz") /\ InstanceOf(instances[2].ref, "Foo")
    /\ stack = <<[fn |-> "Baz.size", this |-> instances[2].ref],
                 [fn |-> "Foo.size", this |-> instances[2].ref]>>

\* The same scenario with the sparse parent materialized first.
C16_WitnessOtherOrder ==
    /\ Len(instances) = 2
    /\ ChainClasses(instances[1].from) = {"Foo", "Baz"}
    /\ ChainClasses(instances[2].from) = {"Bar", "Baz"}
    /\ stack = <<[fn |-> "Baz.size", this |-> instances[2].ref],
                 [fn |-> "Bar.size", this |-> instances[2].ref]>>

(***************************************************************************)
(* C17: two ctors of the same child class with the same child parameters,  *)
(* chained onto two different ctors of one parent class, give instances    *)
(* that agree on the fields the child class assigns and that hold, for the *)
(* fields of the parent levels, what their own parent ctor captured.  The  *)
(* child ctor holds the parameters of the child class only, whichever      *)
(* factory (Foo's factories or clone()) made the parent ctor.              *)
(***************************************************************************)
SameChildOtherParent(c1, c2) ==
    /\ ctors[c1].parentCtor # 0 /\ ctors[c2].parentCtor # 0
    /\ ctors[c1].parentCtor # ctors[c2].parentCtor
    /\ ctors[c1].ctor = ctors[c2].ctor
    /\ ctors[c1].params = ctors[c2].params
    /\ ctors[ctors[c1].parentCtor].ctor = ctors[ctors[c2].parentCtor].ctor

C17_ChildIndependentOfParent ==
    /\ \A i, j \in Insts :
           SameChildOtherParent(instances[i].from, instances[j].from) =>
               LET c == instances[i].from
                   P == ctors[c].parentCtor
               IN  /\ \A f \in FieldsOfClass(ctors[c].ctor) :
                          \/ Fields(i)[f] = Fields(j)[f]
                          \/ Mutated \in {Fields(i)[f], Fields(j)[f]}
                   /\ \A f \in ChainFields(P) \ FieldsOfClass(ctors[c].ctor) :
                          Fields(i)[f] \in {LastWritten(P, f), Mutated}
    /\ \A c \in 1..Len(ctors) :
           ctors[c].parentCtor # 0 =>
               Len(ctors[c].params) = Len(FieldNames[ctors[c].ctor])

C17_Witness ==
    /\ Len(instances) = 2
    /\ SameChildOtherParent(instances[1].from, instances[2].from)
    /\ ctors[ctors[instances[1].from].parentCtor].params = <<"a">>
    /\ ctors[ctors[instances[2].from].parentCtor].params = <<"b">>
    /\ Fields(1) = [foo |-> "a", bar |-> "c", qux |-> "d"]
    /\ Fields(2) = [foo |-> "b", bar |-> "c", qux |-> "d"]

(***************************************************************************)
(* C18: one construct() on a chain of N levels invokes the constructors    *)
(* root first, leaf last, each level once, each with the parameters of its *)
(* own ctor, and each with the one object construct() returns as receiver; *)
(* in both versions of constructOn.                                        *)
(***************************************************************************)
\* The calls are those of the levels of d in order, with their own parameters.
InvokedInOrder(calls, d) ==
    /\ Len(calls) = Depth(d)
    /\ \A k \in 1..Depth(d) :
           /\ calls[k].ctor = LevelClass(d, k)
           /\ calls[k].params = ctors[ChainOf(d)[k]].params

OnAccumulator(calls, self) == \A k \in 1..Len(calls) : calls[k].this = self

C18_InitializerOrder ==
    \A d \in 1..Len(ctors) :
        ~Throwing(d) =>
            LET r1 == construct(d, heap, armed)
                r2 == construct2(d, heap, armed)
            IN  /\ InvokedInOrder(r1.calls, d) /\ OnAccumulator(r1.calls, r1.self)
                /\ InvokedInOrder(r2.calls, d) /\ OnAccumulator(r2.calls, r2.self)

(***************************************************************************)
(* C19: when two levels of a chain assign the same field name, construct() *)
(* does not throw and the instance holds, for every field, the value       *)
(* assigned by the level nearest the leaf that assigns it.                 *)
(***************************************************************************)
C19_LastWriteWins ==
    /\ \A d \in 1..Len(ctors) :
           ((\E f \in ChainFields(d) : Collides(d, f)) /\ ~Throwing(d)) =>
               LET r == construct(d, heap, armed)
               IN  /\ ~r.threw
                   /\ r.heap[r.self].props = [f \in ChainFields(d) |-> LastWritten(d, f)]
    /\ \A i \in Insts :
           /\ DOMAIN Fields(i) = ChainFields(instances[i].from)
           /\ \A f \in DOMAIN Fields(i) :
                  Fields(i)[f] \in {LastWritten(instances[i].from, f), Mutated}
           /\ MutatedCount <= writes

C19_Witness ==
    \E i \in Insts :
        /\ ChainSignature(instances[i].from) =
               <<<<"Foo", <<"a">>>>, <<"Bar", <<"c", "d">>>>, <<"Foo", <<"b">>>>>>
        /\ Fields(i) = [foo |-> "b", bar |-> "c", qux |-> "d"]

(***************************************************************************)
(* C20: construct() builds one new prototype object per level, holding     *)
(* what the declared prototype of the level's class holds at that moment.  *)
(* No prototype object is on the chain of two instances or is a declared   *)
(* prototype, and neither construct() nor an assignment to a prototype of  *)
(* one instance changes a declared prototype or a prototype of another     *)
(* instance.                                                               *)
(***************************************************************************)
\* The per-level prototypes of an object built over a chain of n levels.
PrototypesOf(h, ref, n) == {PrototypeAbove(h, ref, k) : k \in 1..n}

Prototypes(i) == PrototypesOf(heap, instances[i].ref, Depth(instances[i].from))

Declared == {PrototypeOf[c] : c \in Classes} \cup {BasePrototype}

\* In heap h the prototypes of ref hold what the declared prototypes of
\* the classes of d hold in heap h0.
CopiesOfDeclared(h, ref, d, h0) ==
    \A k \in 1..Depth(d) :
        h[PrototypeAbove(h, ref, k)].props =
            h0[PrototypeOf[LevelClass(d, Depth(d) - k + 1)]].props

FreshPrototypes ==
    /\ \A i \in Insts :
           /\ Cardinality(Prototypes(i)) = Depth(instances[i].from)
           /\ Prototypes(i) \cap Declared = {}
           /\ \A j \in Insts \ {i} : Prototypes(i) \cap Prototypes(j) = {}
    /\ \A d \in 1..Len(ctors) :
           ~Throwing(d) =>
               LET r == construct2(d, heap, armed)
               IN  /\ CopiesOfDeclared(r.heap, r.self, d, heap)
                   /\ \A ref \in PrototypesOf(r.heap, r.self, Depth(d)) : ref > Len(heap)

C20_FreshDispatchTables ==
    /\ [][/\ Len(instances') > Len(instances) =>
                /\ CopiesOfDeclared(heap', instances'[Len(instances')].ref,
                                    instances'[Len(instances')].from, heap)
                /\ \A ref \in 1..Len(heap) : heap'[ref] = heap[ref]
           /\ \A i \in Insts : \A k \in 1..Depth(instances[i].from) :
                  SetMethod(i, k) =>
                      /\ heap'[PrototypeAbove(heap, instances[i].ref, k)].props["m"] = Mutated
                      /\ \A ref \in Declared : heap'[ref] = heap[ref]
                      /\ \A j \in Insts \ {i} : \A ref \in Prototypes(j) :
                             heap'[ref] = heap[ref]]_vars
    /\ []FreshPrototypes

C20_Witness ==
    /\ Len(instances) = 2
    /\ instances[1].from = instances[2].from
    /\ Depth(instances[1].from) = 2
    /\ Prototypes(1) \cap Prototypes(2) = {}
    /\ Get(heap, instances[1].ref, "m") = Mutated
    /\ Get(heap, instances[2].ref, "m") = "Bar.m"
    /\ heap[PrototypeOf["Bar"]].props["m"] = "Bar.m"

(***************************************************************************)
(* C21: the prototype walk of an instance.  For an instance constructed    *)
(* from a ctor whose chain has N levels, following the prototype links     *)
(* from the instance visits N prototypes built for this instance alone     *)
(* (none of them a declared class prototype, none visited twice, none on   *)
(* the walk of another instance); the k-th of them has as constructor the  *)
(* class of level N - k + 1, and the link after the N-th is                *)
(* Base.prototype, for every instance.                                     *)
(***************************************************************************)
Table(i, k) == PrototypeAbove(heap, instances[i].ref, k)

Tables(i) == {Table(i, k) : k \in 1..Depth(instances[i].from)}

C21_PrototypeWalk ==
    \A i \in Insts :
        LET N == Depth(instances[i].from)
        IN  /\ \A k \in 1..N :
                   /\ Table(i, k) > Len(InitialHeap)
                   /\ heap[Table(i, k)].props["constructor"] =
                          LevelClass(instances[i].from, N - k + 1)
            /\ Cardinality(Tables(i)) = N
            /\ \A j \in Insts \ {i} : Tables(i) \cap Tables(j) = {}
            /\ PrototypeAbove(heap, instances[i].ref, N + 1) = BasePrototype

C21_Witness ==
    /\ Len(instances) = 2
    /\ Depth(instances[1].from) = 1 /\ Depth(instances[2].from) = 3
    /\ Table(1, 2) = BasePrototype
    /\ Table(2, 4) = BasePrototype
    /\ heap[Table(2, 1)].props["constructor"] = LevelClass(instances[2].from, 3)
    /\ heap[Table(2, 3)].props["constructor"] = LevelClass(instances[2].from, 1)

(***************************************************************************)
(* C22: what construct() leaves alone.  For every ctor d, construct()      *)
(* returns with every ctor object as it was and with every object that     *)
(* existed before the call as it was: the earlier instances, the           *)
(* prototypes built for them, the prototypes of the declared classes and   *)
(* Base.prototype keep their properties and their prototype links, whether *)
(* the call returns an instance or throws.  Only new objects are added,    *)
(* and only Symbol.hasInstance of a class of the chain that had none is    *)
(* defined.                                                                *)
(***************************************************************************)
C22_ConstructFrame ==
    \A d \in 1..Len(ctors) :
        LET r == construct(d, heap, armed)
        IN  /\ r.ctors = ctors
            /\ Len(r.heap) >= Len(heap)
            /\ \A ref \in 1..Len(heap) : r.heap[ref] = heap[ref]
            /\ \A X \in Classes :
                   r.armed[X] # armed[X] => armed[X] = 0 /\ X \in ChainClasses(d)

C22_Witness ==
    /\ Len(instances) = 2
    /\ instances[1].from = 2 /\ instances[2].from = 2
    /\ Depth(2) = 2
    /\ ~Pristine(1) /\ Pristine(2)
    /\ \A ref \in 1..Len(InitialHeap) : heap[ref] = InitialHeap[ref]
    /\ heap[Table(1, 1)].props = heap[Table(2, 1)].props
    /\ armed[LevelClass(2, 1)] = 1 /\ armed[LevelClass(2, 2)] = 2

(***************************************************************************)
(* C23: this._super is a read view.  Reading a property through it gives   *)
(* what the property lookup finds starting at the prototype above the      *)
(* instance's own: a function comes back bound to the instance, any other  *)
(* value (a non-function assigned on a prototype, or undefined) comes back *)
(* as it is, bound to nothing.  A method that obtains this._super and      *)
(* reads from it (clone) changes no object: the fields of the instances    *)
(* and all prototypes stay as they were.                                   *)
(***************************************************************************)
Readable == Callable \cup {"clone", "add", "constructor"} \cup AllFields

C24_SamePredicate ==
    \A d1, d2 \in 1..Len(ctors) :
        ctors[d1].ctor = ctors[d2].ctor =>
            \A i \in Insts :
                hasInstance(d1, heap, instances[i].ref) =
                    hasInstance(d2, heap, instances[i].ref)

(***************************************************************************)
(* C25: containment in the chain, read from the ctor and read from the     *)
(* instance.  A ctor's chain contains a class X when the ctor's class is X *)
(* or the ctor has a parent whose chain contains X.  For every ctor D with *)
(* constructors that succeed, every instance constructed from D (the ones  *)
(* made so far and the one a further construct() would make) and every     *)
(* declared class X: X is among the constructors found on the instance's   *)
(* prototype chain exactly when D's chain contains X.                      *)
(***************************************************************************)
RECURSIVE Contains(_, _)
Contains(d, X) ==
    \/ ctors[d].ctor = X
    \/ ctors[d].parentCtor # 0 /\ Contains(ctors[d].parentCtor, X)

Recorded(h, obj) ==
    {getPrototypeConstructors(h, obj)[k] : k \in 1..Len(getPrototypeConstructors(h, obj))}

C25_ContainmentAgrees ==
    /\ \A i \in Insts : \A X \in Classes :
           X \in Recorded(heap, instances[i].ref) <=> Contains(instances[i].from, X)
    /\ \A d \in 1..Len(ctors) :
           ~Throwing(d) =>
               LET r == construct(d, heap, armed)
                   recorded == Recorded(r.heap, r.self)
               IN  \A X \in Classes : X \in recorded <=> Contains(d, X)

C25_Witness ==
    /\ Len(instances) = 2
    /\ instances[1].from = 1 /\ instances[2].from = 3
    /\ ctors[3].parentCtor = 2 /\ ctors[2].parentCtor = 1
    /\ ctors[1].ctor = "Bar" /\ ctors[2].ctor = "Foo" /\ ctors[3].ctor = "Bar"
    /\ Recorded(heap, instances[1].ref) = {"Bar", "Base"}
    /\ Recorded(heap, instances[2].ref) = {"Bar", "Foo", "Base"}
    /\ ~Contains(1, "Foo") /\ Contains(3, "Foo") /\ ~Contains(3, "Baz")

(***************************************************************************)
(* C26: the comparison with the default Symbol.hasInstance and the         *)
(* defineProperty that follows it are two statements, but no code runs     *)
(* between them.  construct() calls that follow one another define         *)
(* Symbol.hasInstance of a class only while it is the default one, and so  *)
(* does a construct() that a constructor starts while an outer construct() *)
(* is under way: for every ctor d, every level `at` of its chain and every *)
(* ctor `inner`, when the constructor of `at` calls                        *)
(* ctors[inner].construct(), Symbol.hasInstance of every class is defined  *)
(* at most once by the two calls together, only if the class was not armed *)
(* before, and what was installed before stays.                            *)
(***************************************************************************)
Levels(d) == {ChainOf(d)[k] : k \in 1..Depth(d)}

OwnArguments(calls, d) ==
    /\ Len(calls) <= Depth(d)
    /\ \A k \in 1..Len(calls) :
           /\ calls[k].ctor = LevelClass(d, k)
           /\ calls[k].params = ctors[ChainOf(d)[k]].params
           /\ calls[k].params \in ParamsOf(LevelClass(d, k))
           /\ \A j \in 1..Depth(d) :
                  LevelClass(d, j) # LevelClass(d, k) =>
                      calls[k].params \notin ParamsOf(LevelClass(d, j))

Below(d, k) == {LevelClass(d, j) : j \in 1..(k - 1)}

PartlyArmed(r, d) ==
    /\ r.threw
    /\ \A X \in Below(d, FirstThrowing(d)) : r.armed[X] # 0
    /\ \A X \in Classes \ Below(d, FirstThrowing(d)) : r.armed[X] = armed[X]

C28_PartialArming ==
    \A d \in 1..Len(ctors) :
        Throwing(d) =>
            /\ PartlyArmed(construct(d, heap, armed), d)
            /\ PartlyArmed(construct2(d, heap, armed), d)

C28_Witness ==
    /\ Len(ctors) = 3
    /\ ctors[1] = [parentCtor |-> 0, ctor |-> "Bar", params |-> <<"c", "d">>]
    /\ ctors[2] = [parentCtor |-> 1, ctor |-> "Baz", params |-> <<UNDEF>>]
    /\ ctors[3] = [parentCtor |-> 2, ctor |-> "Foo", params |-> <<"a">>]
    /\ instances = <<>>
    /\ armed = [Foo |-> 0, Bar |-> 1, Baz |-> 0]

C30_FiniteAcyclic ==
    /\ [](\A d \in 1..Len(ctors) :
              /\ ctors[d].parentCtor < d
              /\ Depth(d) <= d
              /\ ChainOf(d)[Depth(d)] = d
              /\ \A k \in 1..(Depth(d) - 1) : ChainOf(d)[k] < ChainOf(d)[k + 1]
              /\ LET r == construct(d, heap, armed)
                     r2 == construct2(d, heap, armed)
                 IN  IF Throwing(d)
                     THEN /\ r.threw /\ Len(r.calls) = FirstThrowing(d)
                          /\ r2.threw /\ Len(r2.calls) = FirstThrowing(d)
                     ELSE /\ ~r.threw /\ Len(r.calls) = Depth(d)
                          /\ Len(r.heap) = Len(heap) + 1 + Depth(d)
                          /\ ~r2.threw /\ Len(r2.calls) = Depth(d)
                          /\ Len(r2.heap) = Len(heap) + 1 + 2 * Depth(d))
    /\ [](\A i \in Insts :
              /\ Len(getPrototypeConstructors(heap, instances[i].ref)) =
                     Depth(instances[i].from) + 1
              /\ \A X \in Classes : InstanceOf(instances[i].ref, X) \in BOOLEAN)
    /\ [][\A d \in 1..Len(ctors) :
              ctors'[d].parentCtor = ctors[d].parentCtor]_vars

C30_Witness ==
    /\ Len(ctors) = 3
    /\ ctors[1].parentCtor = 0 /\ ctors[2].parentCtor = 1 /\ ctors[3].parentCtor = 2
    /\ ChainOf(3) = <<1, 2, 3>>
    /\ Len(instances) = 2
    /\ instances[1].from = 3 /\ instances[2].from = 3
    /\ Len(heap) = Len(InitialHeap) + 8
    /\ armed[ctors[3].ctor] # 0
    /\ InstanceOf(instances[2].ref, ctors[1].ctor)

====
